---- MODULE Spec2Model ----
(***************************************************************************)
(* Faroese False Friends / Ordafellan: the hangman engine                  *)
(* (src/src/lib/hangman.ts), the stats ledger (src/src/lib/storage.ts),    *)
(* the day index and the puzzle selection (daily.ts, puzzles.ts,           *)
(* hangmanPuzzles.ts), and the two components that drive them: HangmanGame *)
(* (src/src/HangmanGame.tsx) and the quiz, App (src/src/App.tsx).          *)
(*                                                                         *)
(* Representation.  A JavaScript string is a sequence of characters; a     *)
(* character is named by a TLA+ string ("k", "K", "o_acute" for o with an  *)
(* acute accent, "sp" for the space, ...).  `guesses` holds the elements   *)
(* of the guesses array: nextState rebuilds the array from a Set           *)
(* (hangman.ts:58,71) and nothing reads its order.  A local calendar date  *)
(* (an ISO "YYYY-MM-DD" string) is the number of its day.                  *)
(***************************************************************************)
EXTENDS Integers, Sequences, FiniteSets, TLC

VARIABLES
    now,             \* the device's clock: an instant, in hours
    puzzles,         \* HangmanGame: the loaded catalog, or Null
    error,           \* HangmanGame: the load error, or Null
    todayIso,        \* HangmanGame: todayISO() at mount
    START_DATE_ISO,  \* HangmanGame: localISO(new Date()) at mount
    dayOffset,       \* HangmanGame: the arrows' offset
    state,           \* the HangmanState in memory
    stats,           \* the Stats in memory
    store,           \* localStorage: key -> stored text
    letterRaw,       \* the last letter handed to nextState since the page opened
    appPuzzles,      \* App: the loaded quiz catalog, or Null
    appError,        \* App: the load error, or Null
    dateISO,         \* App: todayISO() at mount
    appStats,        \* App: the Stats in memory
    dayResult,       \* App: Null, or <<the DayResult of the day>>
    appPicked,       \* App: Null, or <<what pickTodayPuzzle returned>>
    history          \* the results handed to applyResultToStats, in order

\* the state of the quiz component
appVars == <<appPuzzles, appError, dateISO, appStats, dayResult, appPicked>>

vars == <<now, puzzles, error, todayIso, START_DATE_ISO, dayOffset, state,
          stats, store, letterRaw, appVars, history>>

\* null and undefined; every value that may be null is a non-empty tuple
Null == <<>>

(***************************************************************************)
(* Characters                                                              *)
(***************************************************************************)

\* the lower-case letters of the class in LETTER_RE: a-z and the Faroese ones
LOWER ==
    <<"a", "b", "c", "d", "e", "f", "g", "h", "i", "j", "k", "l", "m",
      "n", "o", "p", "q", "r", "s", "t", "u", "v", "w", "x", "y", "z",
      "a_acute", "eth", "i_acute", "o_acute", "u_acute", "y_acute",
      "ae", "o_slash">>

\* their upper-case forms, in the same order
UPPER ==
    <<"A", "B", "C", "D", "E", "F", "G", "H", "I", "J", "K", "L", "M",
      "N", "O", "P", "Q", "R", "S", "T", "U", "V", "W", "X", "Y", "Z",
      "A_acute", "Eth", "I_acute", "O_acute", "U_acute", "Y_acute",
      "AE", "O_slash">>

Range(f) == {f[i] : i \in DOMAIN f}

LETTER_RE == Range(LOWER)

\* other characters: "sp" the space, "comma", "1", and "bullet", the placeholder
PLACEHOLDER == "bullet"

\* the lower-case form of each upper-case letter
LowerOf ==
    [c \in Range(UPPER) |-> LOWER[CHOOSE i \in DOMAIN UPPER : UPPER[i] = c]]

\* lower-casing that also drops the acute accent
lowerChar_foldAccent(c) ==
    LET l == IF c \in DOMAIN LowerOf THEN LowerOf[c] ELSE c
    IN  CASE l = "a_acute" -> "a"
          [] l = "i_acute" -> "i"
          [] l = "o_acute" -> "o"
          [] l = "u_acute" -> "u"
          [] l = "y_acute" -> "y"
          [] OTHER -> l

\* String.prototype.toLocaleLowerCase on one character
lowerChar(c) == IF c \in DOMAIN LowerOf THEN LowerOf[c] ELSE c

(***************************************************************************)
(* hangman.ts                                                              *)
(***************************************************************************)

\* one life too many
MAX_LIVES_oneMore == 6 + 1

MAX_LIVES == 6

norm(ch) == [i \in DOMAIN ch |-> lowerChar(ch[i])]

\* LETTER_RE.test: exactly one character, and it is of the class
isGuessableLetter(chRaw) ==
    LET ch == norm(chRaw) IN Len(ch) = 1 /\ ch[1] \in LETTER_RE

solutionLetters(solution) ==
    {norm(<<solution[i]>>) : i \in {j \in DOMAIN solution :
                                      isGuessableLetter(norm(<<solution[j]>>))}}

RECURSIVE maskFrom(_, _, _)
maskFrom(solution, guesses, i) ==
    IF i > Len(solution) THEN <<>>
    ELSE LET raw == <<solution[i]>>
             ch  == norm(raw)
             out == IF ~isGuessableLetter(ch) THEN raw
                    ELSE IF ch \in guesses THEN raw ELSE <<PLACEHOLDER>>
         IN  out \o maskFrom(solution, guesses, i + 1)

\* mask that shows the normalized letter instead of the solution's own
RECURSIVE maskNormFrom(_, _, _)
maskNormFrom(solution, guesses, i) ==
    IF i > Len(solution) THEN <<>>
    ELSE LET raw == <<solution[i]>>
             ch  == norm(raw)
             out == IF ~isGuessableLetter(ch) THEN raw
                    ELSE IF ch \in guesses THEN ch ELSE <<PLACEHOLDER>>
         IN  out \o maskNormFrom(solution, guesses, i + 1)

mask_showsNormalized(solution, guesses) == maskNormFrom(solution, guesses, 1)

\* mask that hides every character that is not a guessed letter
mask_hidesPunctuation(solution, guesses) ==
    [i \in 1..Len(solution) |->
        IF norm(<<solution[i]>>) \in guesses THEN solution[i]
        ELSE PLACEHOLDER]

mask(solution, guesses) == maskFrom(solution, guesses, 1)

\* nextState with one slip, named by `slip`
nextStateSlip(puzzle, st, raw, slip) ==
    IF slip # "no status check" /\ st.status # "playing" THEN st
    ELSE LET letter == norm(raw) IN
      IF ~isGuessableLetter(letter) THEN st
      ELSE IF slip # "no repeat check" /\ letter \in st.guesses THEN st
      ELSE LET guesses    == st.guesses \cup {letter}
               needed     == solutionLetters(puzzle.solution)
               wasCorrect == letter \in needed
               wrong      == st.wrong + (IF wasCorrect /\ slip # "always wrong"
                                         THEN 0 ELSE 1)
               won        == IF slip = "won from old guesses"
                             THEN \A l \in needed : l \in st.guesses
                             ELSE \A l \in needed : l \in guesses
               lost       == IF slip = "lost late" THEN wrong > MAX_LIVES
                             ELSE IF slip = "lost early"
                             THEN wrong >= MAX_LIVES - 1
                             ELSE IF slip = "never lost" THEN FALSE
                             ELSE wrong >= MAX_LIVES
           IN  [guesses |-> guesses,
                wrong   |-> wrong,
                status  |-> IF won THEN "won"
                            ELSE IF lost THEN "lost" ELSE "playing"]

nextState_lostLate(puzzle, st, raw) == nextStateSlip(puzzle, st, raw, "lost late")

nextState_alwaysWrong(puzzle, st, raw) ==
    nextStateSlip(puzzle, st, raw, "always wrong")

nextState_noStatusCheck(puzzle, st, raw) ==
    nextStateSlip(puzzle, st, raw, "no status check")

nextState_noRepeatCheck(puzzle, st, raw) ==
    nextStateSlip(puzzle, st, raw, "no repeat check")

nextState_wonFromOldGuesses(puzzle, st, raw) ==
    nextStateSlip(puzzle, st, raw, "won from old guesses")

nextState_lostEarly(puzzle, st, raw) ==
    nextStateSlip(puzzle, st, raw, "lost early")

nextState_neverLost(puzzle, st, raw) ==
    nextStateSlip(puzzle, st, raw, "never lost")

nextState(puzzle, st, raw) ==
    IF st.status # "playing" THEN st
    ELSE LET letter == norm(raw) IN
      IF ~isGuessableLetter(letter) THEN st
      ELSE IF letter \in st.guesses THEN st
      ELSE LET guesses    == st.guesses \cup {letter}
               needed     == solutionLetters(puzzle.solution)
               wasCorrect == letter \in needed
               wrong      == st.wrong + (IF wasCorrect THEN 0 ELSE 1)
               won        == \A l \in needed : l \in guesses
               lost       == wrong >= MAX_LIVES
           IN  [guesses |-> guesses,
                wrong   |-> wrong,
                status  |-> IF won THEN "won"
                            ELSE IF lost THEN "lost" ELSE "playing"]

(***************************************************************************)
(* Calendar: HangmanGame.tsx and storage.ts read the local clock           *)
(***************************************************************************)

\* inputs: the clock stops after MaxTicks half-days; the local day DstDay is
\* the 23-hour day of the switch to summer time
MaxTicks == 1
DstDay == 0

\* new Date(y, m, d).getTime(), in hours: the instant of day d's local midnight
localMidnight(d) == 24 * d - (IF d > DstDay THEN 1 ELSE 0)

\* the local calendar date of the instant t (getFullYear/getMonth/getDate)
localISO(t) ==
    CHOOSE d \in (t \div 24 - 1)..(t \div 24 + 1) :
        localMidnight(d) <= t /\ t < localMidnight(d + 1)

todayISO(t) == localISO(t)

addLocalDays(iso, deltaDays) == iso + deltaDays

daysBetweenLocal(aISO, bISO) ==
    (localMidnight(aISO) - localMidnight(bISO)) \div 24

\* JavaScript's %: the remainder has the sign of the dividend
jsRem(a, b) == IF a >= 0 THEN a % b ELSE -((-a) % b)

\* daily.ts: the quiz's epoch, "2025-12-23", is the day numbered 0
START_DATE == 0

\* toISODate(d): the date made of the local year, month and day of the instant
toISODate(t) == localISO(t)

\* daysSinceStart(today, startISO): the local midnights of both, Math.floor
daysSinceStart(today, startISO) ==
    LET a == localMidnight(startISO)
        b == localMidnight(localISO(today))
    IN  (b - a) \div 24

\* puzzles.ts: pickTodayPuzzle(puzzles, today)
pickTodayPuzzle(ps, today) ==
    LET dayIndex == daysSinceStart(today, START_DATE)
        idx == jsRem(jsRem(dayIndex, Len(ps)) + Len(ps), Len(ps))
    IN  [puzzle |-> ps[idx + 1], dayIndex |-> dayIndex]

\* hangmanPuzzles.ts: START_DATE = new Date("2025-01-02T00:00:00"), an instant
\* (the local midnight of its epoch day, here the day numbered 0 as well)
hangmanSTART_DATE == localMidnight(0)

\* dayIndexFor(date): Math.floor of the elapsed time since that instant
dayIndexFor(t) == (t - hangmanSTART_DATE) \div 24

(***************************************************************************)
(* storage.ts                                                              *)
(***************************************************************************)

KEY_STATS == <<"ff_stats_v1">>

\* an optional date (lastPlayed?: string) is <<>> when undefined, else <<date>>
ZeroStats == [played |-> 0, wins |-> 0, streak |-> 0, maxStreak |-> 0,
              lastPlayed |-> <<>>]

\* JSON.stringify / JSON.parse of a Stats: an undefined lastPlayed is left out
stringifyStats(s) ==
    <<s.played, s.wins, s.streak, s.maxStreak>> \o s.lastPlayed

\* a parse that loses the optional date
parseStats_dropsLastPlayed(raw) ==
    [played |-> raw[1], wins |-> raw[2], streak |-> raw[3],
     maxStreak |-> raw[4], lastPlayed |-> <<>>]

parseStats(raw) ==
    [played |-> raw[1], wins |-> raw[2], streak |-> raw[3],
     maxStreak |-> raw[4],
     lastPlayed |-> IF Len(raw) >= 5 THEN <<raw[5]>> ELSE <<>>]

\* texts the program did not write, each a one-element tuple naming it: the
\* empty string, text that is no JSON, and the JSON texts null, 7 and {"a":1}
ForeignTexts == {<<"">>, <<"not json">>, <<"null">>, <<"7">>, <<"{a:1}">>}

isForeignText(raw) == Len(raw) = 1

\* JSON.parse of a foreign text throws on text that is no JSON; else it gives
\* the value: null, or a number or an object of another shape, held as
\* [json |-> the text]
jsonParseThrows(raw) == raw[1] = "not json"

jsonParseForeign(raw) == IF raw[1] = "null" THEN Null ELSE [json |-> raw[1]]

\* localStorage.getItem and setItem
getItem(st, key) == IF key \in DOMAIN st THEN st[key] ELSE Null

\* loadStats: the zero stats for !raw (null, "") and for a parse that throws;
\* else whatever JSON.parse returns
loadStats(st) ==
    LET raw == getItem(st, KEY_STATS)
    IN  IF raw = Null THEN ZeroStats
        ELSE IF isForeignText(raw)
             THEN IF raw[1] = "" THEN ZeroStats
                  ELSE IF jsonParseThrows(raw) THEN ZeroStats
                  ELSE jsonParseForeign(raw)
        ELSE parseStats(raw)

setItem(st, key, text) ==
    [k \in DOMAIN st \cup {key} |-> IF k = key THEN text ELSE st[k]]

saveStats(st, s) == setItem(st, KEY_STATS, stringifyStats(s))

\* Math.floor in the place of Math.round
roundDays_floor(n) == n \div 24

\* Math.round(ms / (24 h)) of a difference of n hours
roundDays(n) == (2 * n + 24) \div 48

\* applyResultToStats with one slip, named by `slip`
applyResultSlip(s, result, slip) ==
    LET played == s.played + 1
        wins   == IF result.correct \/ slip = "wins always"
                  THEN s.wins + 1 ELSE s.wins
        diffDays ==
            roundDays(localMidnight(result.date) - localMidnight(s.lastPlayed[1]))
        extends == IF slip = "gap extends" THEN diffDays >= 1 ELSE diffDays = 1
        streak ==
            IF result.correct
            THEN IF s.lastPlayed = <<>> THEN 1
                 ELSE IF extends THEN s.streak + 1 ELSE 1
            ELSE IF slip = "loss keeps streak" THEN s.streak
            ELSE IF slip = "loss extends" THEN s.streak + 1
            ELSE IF slip = "miss takes a day" THEN s.streak - 1
            ELSE 0
        basis == IF slip = "max from old streak" THEN s.streak ELSE streak
        maxStreak ==
            IF result.correct
            THEN IF s.maxStreak >= basis THEN s.maxStreak ELSE basis
            ELSE s.maxStreak
    IN  IF slip = "once per date" /\ s.lastPlayed = <<result.date>> THEN s
        ELSE [played |-> played, wins |-> wins, streak |-> streak,
              maxStreak |-> maxStreak, lastPlayed |-> <<result.date>>]

applyResultToStats_winsAlways(s, result) ==
    applyResultSlip(s, result, "wins always")

applyResultToStats_gapExtends(s, result) ==
    applyResultSlip(s, result, "gap extends")

applyResultToStats_lossKeepsStreak(s, result) ==
    applyResultSlip(s, result, "loss keeps streak")

applyResultToStats_maxFromOldStreak(s, result) ==
    applyResultSlip(s, result, "max from old streak")

applyResultToStats_missTakesADay(s, result) ==
    applyResultSlip(s, result, "miss takes a day")

applyResultToStats_oncePerDate(s, result) ==
    applyResultSlip(s, result, "once per date")

applyResultToStats_lossExtends(s, result) ==
    applyResultSlip(s, result, "loss extends")

applyResultToStats(s, result) ==
    LET played == s.played + 1
        wins   == IF result.correct THEN s.wins + 1 ELSE s.wins
        diffDays ==
            roundDays(localMidnight(result.date) - localMidnight(s.lastPlayed[1]))
        streak ==
            IF result.correct
            THEN IF s.lastPlayed = <<>> THEN 1
                 ELSE IF diffDays = 1 THEN s.streak + 1 ELSE 1
            ELSE 0
        maxStreak ==
            IF result.correct
            THEN IF s.maxStreak >= streak THEN s.maxStreak ELSE streak
            ELSE s.maxStreak
    IN  [played |-> played, wins |-> wins, streak |-> streak,
         maxStreak |-> maxStreak, lastPlayed |-> <<result.date>>]

\* the quiz's result of a day, kept as JSON text under ff_day_v2_<dayKey>
KEY_DAY_PREFIX == "ff_day_v2_"

stringifyResult(r) == <<r.date, r.choiceIndex, r.correct>>

parseResult(raw) == [date |-> raw[1], choiceIndex |-> raw[2], correct |-> raw[3]]

\* a load that finds nothing
loadDayResultV2_forgets(st, key) == Null

\* loadDayResultV2: null when the key is absent, else the parsed result,
\* held as <<result>>
loadDayResultV2(st, key) ==
    LET raw == getItem(st, <<KEY_DAY_PREFIX, key>>)
    IN  IF raw = Null THEN Null
        ELSE IF isForeignText(raw)
             THEN IF raw[1] = "" THEN Null
                  ELSE IF jsonParseThrows(raw) THEN Null
                  ELSE IF jsonParseForeign(raw) = Null THEN Null
                  ELSE <<jsonParseForeign(raw)>>
        ELSE <<parseResult(raw)>>

saveDayResultV2(st, key, result) ==
    setItem(st, <<KEY_DAY_PREFIX, key>>, stringifyResult(result))

\* loadHangmanState / saveHangmanState: the per-day get and set of the
\* persistence store, the state kept as JSON text
KEY_HANG_PREFIX == "ff_hang_"

stringifyState(s) == <<s.guesses, s.wrong, s.status>>

parseState(raw) == [guesses |-> raw[1], wrong |-> raw[2], status |-> raw[3]]

loadHangmanState(st, key) ==
    LET raw == getItem(st, <<KEY_HANG_PREFIX, key>>)
    IN  IF raw = Null THEN Null ELSE parseState(raw)

saveHangmanState(st, key, s) ==
    setItem(st, <<KEY_HANG_PREFIX, key>>, stringifyState(s))

(***************************************************************************)
(* HangmanGame.tsx                                                         *)
(***************************************************************************)

initialState == [guesses |-> {}, wrong |-> 0, status |-> "playing"]

selectedDateISO == addLocalDays(todayIso, dayOffset)

\* picked is null (!picked) before the catalog is there and before day 0
pickedIsNull ==
    \/ puzzles = Null
    \/ daysBetweenLocal(selectedDateISO, START_DATE_ISO) < 0

picked ==
    IF pickedIsNull THEN Null
    ELSE LET dayIndex == daysBetweenLocal(selectedDateISO, START_DATE_ISO)
             idx == jsRem(jsRem(dayIndex, Len(puzzles)) + Len(puzzles),
                          Len(puzzles))
         IN  [dayIndex |-> dayIndex, puzzle |-> puzzles[idx + 1]]

\* the text of a date, toISOString().slice(0, 10) and the padStart of
\* localISO: day 0 is 2025-12-23
isoText(d) == "2025-12-" \o ToString(23 + d)

\* the template strings of the day keys, HangmanGame.tsx:127 and App.tsx:51
hangKeyText(date, dayIndex, id) ==
    "hang__" \o isoText(date) \o "__" \o ToString(dayIndex) \o "__" \o id

appKeyText(date, dayIndex, id) ==
    isoText(date) \o "__" \o ToString(dayIndex) \o "__" \o id

\* a key that leaves the puzzle out
dayKey_noId ==
    IF pickedIsNull THEN Null
    ELSE <<"hang", selectedDateISO, picked.dayIndex, "">>

dayKey ==
    IF pickedIsNull THEN Null
    ELSE <<"hang", selectedDateISO, picked.dayIndex, picked.puzzle.id>>

maxBack ==
    LET sinceStart == daysBetweenLocal(todayIso, START_DATE_ISO)
    IN  IF sinceStart > 0 THEN sinceStart ELSE 0

\* the effect on dayKey (HangmanGame.tsx:132-144): the state of the day shown
loadedState(st, key, cur) ==
    IF key = Null THEN cur
    ELSE IF getItem(st, <<KEY_HANG_PREFIX, key>>) = Null THEN initialState
    ELSE loadHangmanState(st, key)

(***************************************************************************)
(* Inputs                                                                  *)
(***************************************************************************)

\* the letters the player is given to guess with: the first NumInputLetters
InputPool == <<"k", "a", "t", "o", "o_acute", "b", "c", "d", "e", "f", "g">>
NumInputLetters == 9

InputLetters == {InputPool[i] : i \in 1..NumInputLetters}

\* raw letters handed to nextState: lower case, upper case, and invalid ones
\* (the empty string, a space, a digit, two letters)
RawLetters ==
    {<<c>> : c \in InputLetters}
        \cup {<<"K">>, <<"O">>, <<"B">>}
        \cup {<<>>, <<"sp">>, <<"1">>, <<"a", "k">>}

\* solutions: "KATT", "O', k", "Kot", "1, " (no letter) and the empty one
Solutions ==
    { <<"K", "A", "T", "T">>,
      <<"O_acute", "comma", "sp", "k">>,
      <<"K", "o", "t">>,
      <<"1", "comma", "sp">>,
      <<>> }

\* the keys of KEYBOARD_ROWS pressed in the component: the letter of the
\* solution and six others, enough to lose; and the catalogs it is served
Keys == {<<"K">>, <<"A">>, <<"B">>, <<"C">>, <<"D">>, <<"E">>, <<"F">>}

Catalogs ==
    { <<[id |-> "h1", solution |-> <<"K">>],
        [id |-> "h2", solution |-> <<"A", "sp", "b">>]>> }

(***************************************************************************)
(* The engine alone: nextState called again and again on one puzzle        *)
(***************************************************************************)

InitEngine ==
    /\ now = 0
    /\ \E s \in Solutions : puzzles = <<[id |-> "h1", solution |-> s]>>
    /\ error = Null
    /\ todayIso = todayISO(0)
    /\ START_DATE_ISO = localISO(0)
    /\ dayOffset = 0
    /\ state = initialState
    /\ stats = ZeroStats
    /\ store = <<>>
    /\ letterRaw = <<>>
    /\ appPuzzles = Null
    /\ appError = Null
    /\ dateISO = todayISO(0)
    /\ appStats = ZeroStats
    /\ dayResult = Null
    /\ appPicked = Null
    /\ history = <<>>

Guess(raw) ==
    /\ state' = nextState(picked.puzzle, state, raw)
    /\ letterRaw' = raw
    /\ UNCHANGED <<now, puzzles, error, todayIso, START_DATE_ISO, dayOffset,
                   stats, store, appVars, history>>

NextEngine == \E raw \in RawLetters : Guess(raw)

SpecEngine == InitEngine /\ [][NextEngine]_vars

(***************************************************************************)
(* The HangmanGame component                                               *)
(***************************************************************************)

\* the page is opened: the useState and useMemo initialisers
Mount ==
    /\ puzzles' = Null
    /\ error' = Null
    /\ todayIso' = todayISO(now)
    /\ START_DATE_ISO' = localISO(now)
    /\ dayOffset' = 0
    /\ state' = initialState
    /\ stats' = loadStats(store)
    /\ letterRaw' = <<>>
    /\ UNCHANGED <<now, store, appVars, history>>

Init ==
    /\ now = 0
    /\ puzzles = Null
    /\ error = Null
    /\ todayIso = todayISO(0)
    /\ START_DATE_ISO = localISO(0)
    /\ dayOffset = 0
    /\ state = initialState
    /\ stats = ZeroStats
    /\ store = <<>>
    /\ letterRaw = <<>>
    /\ appPuzzles = Null
    /\ appError = Null
    /\ dateISO = todayISO(0)
    /\ appStats = ZeroStats
    /\ dayResult = Null
    /\ appPicked = Null
    /\ history = <<>>

\* half a day passes, the clock stopping after `ticks` half-days
TickTo(ticks) ==
    /\ now + 12 <= 12 * ticks
    /\ now' = now + 12
    /\ UNCHANGED <<puzzles, error, todayIso, START_DATE_ISO, dayOffset, state,
                   stats, store, letterRaw, appVars, history>>

Tick == TickTo(MaxTicks)

\* loadHangmanPuzzles resolves: setPuzzles, then the effect on dayKey
LoadOk(cat) ==
    /\ puzzles = Null /\ error = Null
    /\ puzzles' = cat
    /\ UNCHANGED <<now, error, todayIso, START_DATE_ISO, dayOffset, stats,
                   store, letterRaw, appVars, history>>
    /\ state' = loadedState(store, dayKey', state)

\* a rejection that leaves a list behind
LoadError_keepsList(message) ==
    /\ puzzles = Null /\ error = Null
    /\ error' = <<message>>
    /\ puzzles' = <<[id |-> "h1", solution |-> <<"K">>]>>
    /\ UNCHANGED <<now, todayIso, START_DATE_ISO, dayOffset, state, stats,
                   store, letterRaw, appVars, history>>

\* loadHangmanPuzzles rejects with a message: setError
LoadError(message) ==
    /\ puzzles = Null /\ error = Null
    /\ error' = <<message>>
    /\ UNCHANGED <<now, puzzles, todayIso, START_DATE_ISO, dayOffset, state,
                   stats, store, letterRaw, appVars, history>>

LoadFail == LoadError("Hangman puzzle list is empty.")

\* a commit that counts the game of any day
commitOn_anyDay(st, sts, sto, key, selected, today, next) ==
    LET wasPlaying == st.status = "playing"
        nowEnded   == next.status = "won" \/ next.status = "lost"
        saved      == saveHangmanState(sto, key, next)
        result     == [date |-> selected, choiceIndex |-> -1,
                       correct |-> next.status = "won"]
        updated    == applyResultToStats(sts, result)
    IN  IF wasPlaying /\ nowEnded
        THEN [state |-> next, stats |-> updated,
              store |-> saveStats(saved, updated), applied |-> <<result>>]
        ELSE [state |-> next, stats |-> sts, store |-> saved,
              applied |-> <<>>]

\* commit(next), HangmanGame.tsx:158-180, as a function of what it reads: the
\* state and the stats in memory, the store, the dayKey, the selected date
\* and today; `applied` holds the result handed to applyResultToStats
commitOn(st, sts, sto, key, selected, today, next) ==
    LET wasPlaying == st.status = "playing"
        nowEnded   == next.status = "won" \/ next.status = "lost"
        saved      == saveHangmanState(sto, key, next)
        isToday    == selected = today
        result     == [date |-> selected, choiceIndex |-> -1,
                       correct |-> next.status = "won"]
        updated    == applyResultToStats(sts, result)
    IN  IF wasPlaying /\ nowEnded /\ isToday
        THEN [state |-> next, stats |-> updated,
              store |-> saveStats(saved, updated), applied |-> <<result>>]
        ELSE [state |-> next, stats |-> sts, store |-> saved,
              applied |-> <<>>]

\* a commit that saves the stats and not the state of the game
commit_forgetsState(next) ==
    IF pickedIsNull \/ dayKey = Null
    THEN UNCHANGED <<state, store, stats, history>>
    ELSE LET wasPlaying == state.status = "playing"
             nowEnded   == next.status = "won" \/ next.status = "lost"
             isToday    == selectedDateISO = todayIso
         IN  /\ state' = next
             /\ IF wasPlaying /\ nowEnded /\ isToday
                THEN LET result  == [date |-> selectedDateISO, choiceIndex |-> -1,
                                     correct |-> next.status = "won"]
                         updated == applyResultToStats(stats, result)
                     IN  /\ store' = saveStats(store, updated)
                         /\ stats' = updated
                         /\ history' = Append(history, result)
                ELSE /\ store' = store
                     /\ stats' = stats
                     /\ history' = history

\* commit(next), HangmanGame.tsx:158-180
commit(next) ==
    IF pickedIsNull \/ dayKey = Null
    THEN UNCHANGED <<state, store, stats, history>>
    ELSE LET wasPlaying == state.status = "playing"
             nowEnded   == next.status = "won" \/ next.status = "lost"
             saved      == saveHangmanState(store, dayKey, next)
             isToday    == selectedDateISO = todayIso
         IN  /\ state' = next
             /\ IF wasPlaying /\ nowEnded /\ isToday
                THEN LET result  == [date |-> selectedDateISO, choiceIndex |-> -1,
                                     correct |-> next.status = "won"]
                         updated == applyResultToStats(stats, result)
                     IN  /\ store' = saveStats(saved, updated)
                         /\ stats' = updated
                         /\ history' = Append(history, result)
                ELSE /\ store' = saved
                     /\ stats' = stats
                     /\ history' = history

onGuess(letter) ==
    /\ IF pickedIsNull THEN UNCHANGED <<state, store, stats, letterRaw, history>>
       ELSE IF state.status # "playing"
            THEN UNCHANGED <<state, store, stats, letterRaw, history>>
            ELSE /\ letterRaw' = letter
                 /\ commit(nextState(picked.puzzle, state, letter))
    /\ UNCHANGED <<now, puzzles, error, todayIso, START_DATE_ISO, dayOffset,
                   appVars>>

\* the arrows: setDayOffset, then the effect on dayKey
ArrowLeft ==
    /\ dayOffset' = (IF -maxBack >= dayOffset - 1 THEN -maxBack ELSE dayOffset - 1)
    /\ UNCHANGED <<now, puzzles, error, todayIso, START_DATE_ISO, stats, store,
                   letterRaw, appVars, history>>
    /\ state' = IF dayKey' = dayKey THEN state
                ELSE loadedState(store, dayKey', state)

ArrowRight ==
    /\ dayOffset' = (IF 0 <= dayOffset + 1 THEN 0 ELSE dayOffset + 1)
    /\ UNCHANGED <<now, puzzles, error, todayIso, START_DATE_ISO, stats, store,
                   letterRaw, appVars, history>>
    /\ state' = IF dayKey' = dayKey THEN state
                ELSE loadedState(store, dayKey', state)

Next ==
    \/ Mount
    \/ Tick
    \/ \E cat \in Catalogs : LoadOk(cat)
    \/ LoadFail
    \/ \E letter \in Keys : onGuess(letter)
    \/ ArrowLeft
    \/ ArrowRight

Spec == Init /\ [][Next]_vars

(***************************************************************************)
(* The quiz component, App.tsx                                             *)
(***************************************************************************)

\* the catalog the quiz is served and the choice buttons pressed: of the
\* four, the right answer of either puzzle, which is a wrong answer of the
\* other
QuizCatalogs ==
    { <<[id |-> "q1", word |-> "w1", prompt |-> "p1",
         choices |-> <<"a", "b", "c", "d">>, answerIndex |-> 1],
        [id |-> "q2", word |-> "w2", prompt |-> "p2",
         choices |-> <<"a", "b", "c", "d">>, answerIndex |-> 0]>> }

Choices == {0, 1}

\* App.tsx:49-52
appDayKey ==
    IF appPicked = Null THEN Null
    ELSE <<dateISO, appPicked[1].dayIndex, appPicked[1].puzzle.id>>

\* the page is opened: the useState and useMemo initialisers of App
AppMount ==
    /\ appPuzzles' = Null
    /\ appError' = Null
    /\ dateISO' = todayISO(now)
    /\ appStats' = loadStats(store)
    /\ dayResult' = Null
    /\ appPicked' = Null
    /\ UNCHANGED <<now, puzzles, error, todayIso, START_DATE_ISO, dayOffset,
                   state, stats, store, letterRaw, history>>

\* loadPuzzles resolves: setPuzzles, picked is computed from the clock, then
\* the effect on dayKey reads the day's result
AppLoadOk(cat) ==
    /\ appPuzzles = Null /\ appError = Null
    /\ appPuzzles' = cat
    /\ appPicked' = <<pickTodayPuzzle(cat, now)>>
    /\ UNCHANGED <<now, puzzles, error, todayIso, START_DATE_ISO, dayOffset,
                   state, stats, store, letterRaw, history, appError, dateISO,
                   appStats>>
    /\ dayResult' = loadDayResultV2(store, appDayKey')

\* loadPuzzles rejects with a message: setError
AppLoadError(message) ==
    /\ appPuzzles = Null /\ appError = Null
    /\ appError' = <<message>>
    /\ UNCHANGED <<now, puzzles, error, todayIso, START_DATE_ISO, dayOffset,
                   state, stats, store, letterRaw, history, appPuzzles, dateISO,
                   appStats, dayResult, appPicked>>

AppLoadFail == AppLoadError("puzzles.json is empty.")

\* onChoose(choiceIndex), App.tsx:60-73
onChoose(choiceIndex) ==
    /\ IF appPicked = Null \/ appDayKey = Null
       THEN UNCHANGED <<store, dayResult, appStats, history>>
       ELSE IF dayResult # Null
            THEN UNCHANGED <<store, dayResult, appStats, history>>
            ELSE LET correct == choiceIndex = appPicked[1].puzzle.answerIndex
                     result  == [date |-> dateISO, choiceIndex |-> choiceIndex,
                                 correct |-> correct]
                     updated == applyResultToStats(appStats, result)
                 IN  /\ store' = saveStats(saveDayResultV2(store, appDayKey,
                                                           result), updated)
                     /\ dayResult' = <<result>>
                     /\ appStats' = updated
                     /\ history' = Append(history, result)
    /\ UNCHANGED <<now, puzzles, error, todayIso, START_DATE_ISO, dayOffset,
                   state, stats, letterRaw, appPuzzles, appError, dateISO,
                   appPicked>>

\* the quiz alone, over MaxAppTicks half-days
MaxAppTicks == 4

AppTick == TickTo(MaxAppTicks)

InitApp == Init

NextApp ==
    \/ AppMount
    \/ AppTick
    \/ \E cat \in QuizCatalogs : AppLoadOk(cat)
    \/ AppLoadFail
    \/ \E choiceIndex \in Choices : onChoose(choiceIndex)

SpecApp == InitApp /\ [][NextApp]_vars

(***************************************************************************)
(* One device: both components over the same localStorage                  *)
(***************************************************************************)

InitDevice == Init

NextDevice ==
    \/ Mount
    \/ Tick
    \/ \E cat \in Catalogs : LoadOk(cat)
    \/ LoadFail
    \/ \E letter \in Keys : onGuess(letter)
    \/ ArrowLeft
    \/ ArrowRight
    \/ AppMount
    \/ \E cat \in QuizCatalogs : AppLoadOk(cat)
    \/ AppLoadFail
    \/ \E choiceIndex \in Choices : onChoose(choiceIndex)

SpecDevice == InitDevice /\ [][NextDevice]_vars

(***************************************************************************)
(* Sessions: the pages are opened again on later days, and the server may  *)
(* serve the catalog in another order                                      *)
(***************************************************************************)

MaxSessionTicks == 2

\* the key pressed: the letter of h1, a wrong letter of h2
SessionKeys == {<<"K">>}

SessionCatalogs ==
    { <<[id |-> "h1", solution |-> <<"K">>],
        [id |-> "h2", solution |-> <<"A", "sp", "b">>]>>,
      <<[id |-> "h2", solution |-> <<"A", "sp", "b">>],
        [id |-> "h1", solution |-> <<"K">>]>> }

SessionTick == TickTo(MaxSessionTicks)

InitSessions == Init

NextSessions ==
    \/ Mount
    \/ SessionTick
    \/ \E cat \in SessionCatalogs : LoadOk(cat)
    \/ LoadFail
    \/ \E letter \in SessionKeys : onGuess(letter)
    \/ ArrowLeft
    \/ ArrowRight
    \/ AppMount
    \/ \E cat \in QuizCatalogs : AppLoadOk(cat)
    \/ AppLoadFail
    \/ \E choiceIndex \in Choices : onChoose(choiceIndex)

SpecSessions == InitSessions /\ [][NextSessions]_vars

(***************************************************************************)
(* The share texts: the lines of the text, each the fields it is built of  *)
(***************************************************************************)

\* msUntilNextLocalMidnight, in hours
msUntilNextLocalMidnight(t) == localMidnight(localISO(t) + 1) - t

\* share of HangmanGame.tsx:196-216: Null when it returns early
share(pickedNull, st, sts, selected, countdown) ==
    IF pickedNull THEN Null
    ELSE IF st.status = "playing" THEN Null
    ELSE << <<"Hangman (Ordafellan)", selected>>,
            <<"wrong", st.wrong, "correct", MAX_LIVES - st.wrong>>,
            <<"Streak", sts.streak>>,
            <<"Nyggj gata um", countdown>>,
            <<"https://ordafellan.fo/">> >>

\* share of App.tsx:75-93
appShare(pick, res, sts, date, countdown) ==
    IF pick = Null \/ res = Null THEN Null
    ELSE << <<"Ordafellan", date>>,
            <<res[1].correct>>,
            <<"Streak", sts.streak>>,
            <<"New in", countdown>> >>

\* share of the earlier App, part_002:85-99
appShareEarlier(pick, res, sts, date) ==
    IF pick = Null \/ res = Null THEN Null
    ELSE << <<"Faroese False Friends", date>>,
            <<pick[1].puzzle.word, res[1].correct>>,
            <<"Streak", sts.streak>> >>

(***************************************************************************)
(* The stats ledger alone: applyResultToStats applied to one result after  *)
(* another, from the zero stats                                            *)
(***************************************************************************)

\* inputs: results dated 0..MaxDate, at most MaxApply of them
MaxDate == 3
MaxApply == 3

Results == [date : 0..MaxDate, choiceIndex : {-1}, correct : BOOLEAN]

InitStats == Init

Apply(result) ==
    /\ Len(history) < MaxApply
    /\ stats' = applyResultToStats(stats, result)
    /\ history' = Append(history, result)
    /\ UNCHANGED <<now, puzzles, error, todayIso, START_DATE_ISO, dayOffset,
                   state, store, letterRaw, appVars>>

NextStats == \E result \in Results : Apply(result)

SpecStats == InitStats /\ [][NextStats]_vars

(***************************************************************************)
(* The loaders alone: localStorage also holds texts the program did not    *)
(* write, and the pages are opened over it                                 *)
(***************************************************************************)

\* the keys the loaders of the first day read
ForeignKeys ==
    {KEY_STATS}
        \cup {<<KEY_DAY_PREFIX,
                <<todayISO(0), pickTodayPuzzle(cat, 0).dayIndex,
                  pickTodayPuzzle(cat, 0).puzzle.id>>>> : cat \in QuizCatalogs}

\* another writer (an older version, another page of the origin, the user)
\* leaves a text under a key
ForeignWrite(key, text) ==
    /\ store' = setItem(store, key, text)
    /\ UNCHANGED <<now, puzzles, error, todayIso, START_DATE_ISO, dayOffset,
                   state, stats, letterRaw, appVars, history>>

InitStore == Init

NextStore ==
    \/ \E key \in ForeignKeys, text \in ForeignTexts : ForeignWrite(key, text)
    \/ Mount
    \/ AppMount
    \/ \E cat \in QuizCatalogs : AppLoadOk(cat)

SpecStore == InitStore /\ [][NextStore]_vars

(***************************************************************************)
(* The catalog fetches: what the server answers, and what loadPuzzles and  *)
(* loadHangmanPuzzles make of it                                           *)
(***************************************************************************)

MaxRecords == 2

\* a record of puzzles.json as the quiz needs it
GoodRecord(id, answerIndex) ==
    [id |-> id, word |-> "w1", prompt |-> "p1",
     choices |-> <<"a", "b", "c", "d">>, answerIndex |-> answerIndex]

\* records as the server may send them: good ones, and ones with no word,
\* an empty prompt, no, three or five choices, no answerIndex or one of -1
\* or 4
RawRecords ==
    {GoodRecord("q1", a) : a \in {0, 1, 3}}
        \cup { GoodRecord("q2", 0),
               [id |-> "q1", prompt |-> "p1",
                choices |-> <<"a", "b", "c", "d">>, answerIndex |-> 1],
               [id |-> "q1", word |-> "w1", prompt |-> "",
                choices |-> <<"a", "b", "c", "d">>, answerIndex |-> 1],
               [id |-> "q1", word |-> "w1", prompt |-> "p1",
                answerIndex |-> 1],
               [id |-> "q1", word |-> "w1", prompt |-> "p1",
                choices |-> <<"a", "b", "c">>, answerIndex |-> 1],
               [id |-> "q1", word |-> "w1", prompt |-> "p1",
                choices |-> <<"a", "b", "c", "d", "e">>, answerIndex |-> 1],
               [id |-> "q1", word |-> "w1", prompt |-> "p1",
                choices |-> <<"a", "b", "c", "d">>],
               [id |-> "q1", word |-> "w1", prompt |-> "p1",
                choices |-> <<"a", "b", "c", "d">>, answerIndex |-> -1],
               [id |-> "q1", word |-> "w1", prompt |-> "p1",
                choices |-> <<"a", "b", "c", "d">>, answerIndex |-> 4] }

RawLists == UNION {[1..n -> RawRecords] : n \in 0..MaxRecords}

\* a response: res.ok and res.status, and the JSON of its body, an array of
\* records or something else
Responses ==
    {[ok |-> TRUE, status |-> 200, isArray |-> TRUE, items |-> l] : l \in RawLists}
        \cup {[ok |-> TRUE, status |-> 200, isArray |-> FALSE, items |-> <<>>]}
        \cup {[ok |-> FALSE, status |-> 404, isArray |-> TRUE, items |-> l] :
                 l \in {l2 \in RawLists : Len(l2) <= 1}}

HangmanResponses ==
    {[ok |-> TRUE, status |-> 200, isArray |-> TRUE, items |-> l] :
        l \in SessionCatalogs \cup {<<>>}}
        \cup {[ok |-> TRUE, status |-> 200, isArray |-> FALSE, items |-> <<>>]}
        \cup {[ok |-> FALSE, status |-> 404, isArray |-> TRUE, items |-> l] :
                 l \in Catalogs}

\* !p.word: the field is missing or is the empty string
falsy(p, field) == field \notin DOMAIN p \/ p[field] = ""

\* the body of the forEach for record p at index i: the message thrown, or
\* Null
validatePuzzle(p, i) ==
    IF falsy(p, "word") \/ falsy(p, "prompt")
    THEN <<"Puzzle " \o ToString(i) \o " missing word/prompt">>
    ELSE IF "choices" \notin DOMAIN p \/ Len(p.choices) # 4
    THEN <<"Puzzle " \o ToString(i) \o " must have 4 choices">>
    ELSE IF "answerIndex" \notin DOMAIN p \/ p.answerIndex < 0
                \/ p.answerIndex > 3
    THEN <<"Puzzle " \o ToString(i) \o " answerIndex must be 0..3">>
    ELSE Null

\* a check that looks at the first record alone
validatePuzzles_firstOnly(isArray, items) ==
    IF ~isArray \/ Len(items) = 0 THEN <<"puzzles.json is empty.">>
    ELSE validatePuzzle(items[1], 0)

\* validatePuzzles: the message of the first throw, or Null
validatePuzzles(isArray, items) ==
    IF ~isArray \/ Len(items) = 0 THEN <<"puzzles.json is empty.">>
    ELSE LET bad == {i \in 1..Len(items) : validatePuzzle(items[i], i - 1) # Null}
         IN  IF bad = {} THEN Null
             ELSE LET first == CHOOSE i \in bad : \A j \in bad : i <= j
                  IN  validatePuzzle(items[first], first - 1)

\* loadPuzzles: the list it resolves with, or the message it rejects with
loadPuzzles(res) ==
    IF ~res.ok
    THEN [data |-> Null,
          message |-> <<"Failed to load puzzles: " \o ToString(res.status)>>]
    ELSE IF validatePuzzles(res.isArray, res.items) # Null
    THEN [data |-> Null, message |-> validatePuzzles(res.isArray, res.items)]
    ELSE [data |-> <<res.items>>, message |-> Null]

loadHangmanPuzzles(res) ==
    IF ~res.ok
    THEN [data |-> Null,
          message |-> <<"Failed to load hangman puzzles: "
                            \o ToString(res.status)>>]
    ELSE IF ~res.isArray \/ Len(res.items) = 0
    THEN [data |-> Null, message |-> <<"Hangman puzzle list is empty.">>]
    ELSE [data |-> <<res.items>>, message |-> Null]

\* the effect of App: loadPuzzles().then(setPuzzles).catch(setError)
AppFetch(res) ==
    IF loadPuzzles(res).message = Null
    THEN AppLoadOk(loadPuzzles(res).data[1])
    ELSE AppLoadError(loadPuzzles(res).message[1])

\* the effect of HangmanGame
Fetch(res) ==
    IF loadHangmanPuzzles(res).message = Null
    THEN LoadOk(loadHangmanPuzzles(res).data[1])
    ELSE LoadError(loadHangmanPuzzles(res).message[1])

InitCatalog == Init

NextCatalog ==
    \/ Mount
    \/ AppMount
    \/ \E res \in HangmanResponses : Fetch(res)
    \/ \E res \in Responses : AppFetch(res)

SpecCatalog == InitCatalog /\ [][NextCatalog]_vars

(***************************************************************************)
(* The day index and the selection alone: the clock runs hour by hour over *)
(* the days around the epoch, for a catalog of each length                 *)
(***************************************************************************)

\* inputs: the instants of MaxDays days before the epoch and MaxDays + 1
\* from it on; catalogs of 1, 2 and 3 puzzles
MaxDays == 2

CatalogsByLength ==
    { <<[id |-> "h1", solution |-> <<"K">>]>>,
      <<[id |-> "h1", solution |-> <<"K">>],
        [id |-> "h2", solution |-> <<"A", "sp", "b">>]>>,
      <<[id |-> "h1", solution |-> <<"K">>],
        [id |-> "h2", solution |-> <<"A", "sp", "b">>],
        [id |-> "h3", solution |-> <<"K", "o", "t">>]>> }

\* HangmanGame shows the day of the clock, its day 0 being the epoch
InitDates ==
    /\ now = localMidnight(-MaxDays)
    /\ puzzles \in CatalogsByLength
    /\ error = Null
    /\ todayIso = todayISO(now)
    /\ START_DATE_ISO = START_DATE
    /\ dayOffset = 0
    /\ state = initialState
    /\ stats = ZeroStats
    /\ store = <<>>
    /\ letterRaw = <<>>
    /\ appPuzzles = Null
    /\ appError = Null
    /\ dateISO = todayISO(now)
    /\ appStats = ZeroStats
    /\ dayResult = Null
    /\ appPicked = Null
    /\ history = <<>>

\* an hour passes and the day shown follows the clock
Hour ==
    /\ now + 1 < localMidnight(MaxDays + 1)
    /\ now' = now + 1
    /\ todayIso' = todayISO(now')
    /\ dateISO' = todayISO(now')
    /\ UNCHANGED <<puzzles, error, START_DATE_ISO, dayOffset, state, stats,
                   store, letterRaw, appPuzzles, appError, appStats, dayResult,
                   appPicked, history>>

NextDates == Hour

SpecDates == InitDates /\ [][NextDates]_vars

(***************************************************************************)
(* Properties of the engine (checked under SpecEngine)                     *)
(***************************************************************************)

solution == picked.puzzle.solution

needed == solutionLetters(solution)

Ended(st) == st.status = "won" \/ st.status = "lost"

\* the status the rule of 4.3 gives for a set of guesses: won if every
\* required letter is guessed, else lost at 6 wrong letters, else playing
StatusOf(guesses, required) ==
    IF required \subseteq guesses THEN "won"
    ELSE IF Cardinality(guesses \ required) >= 6 THEN "lost"
    ELSE "playing"

\* C1: an accepted guess (status playing, the normalized letter guessable and
\* not yet guessed) adds the normalized letter to guesses, adds 1 to wrong
\* iff the letter is not a required letter, and sets status to won if every
\* required letter is now guessed, else lost if wrong >= 6, else playing.
C1_AcceptedGuess ==
    [][ (/\ state.status = "playing"
         /\ isGuessableLetter(letterRaw')
         /\ norm(letterRaw') \notin state.guesses)
        => /\ state'.guesses = state.guesses \cup {norm(letterRaw')}
           /\ state'.wrong = state.wrong
                  + (IF norm(letterRaw') \in needed THEN 0 ELSE 1)
           /\ state'.status =
                  IF \A l \in needed : l \in state'.guesses THEN "won"
                  ELSE IF state'.wrong >= 6 THEN "lost"
                  ELSE "playing" ]_vars

\* an upper-case wrong letter was accepted after a right one
C1_Witness ==
    /\ solution = <<"K", "A", "T", "T">>
    /\ state = [guesses |-> {<<"k">>, <<"b">>}, wrong |-> 1,
                status |-> "playing"]
    /\ letterRaw = <<"B">>

\* C2: in every state reached from the initial state by nextState calls on
\* one puzzle, wrong is the number of guessed letters that are not required
\* letters of the solution.
C2_WrongCount ==
    state.wrong = Cardinality({g \in state.guesses : g \notin needed})

C2_Witness ==
    /\ state.wrong = 3
    /\ Cardinality(state.guesses) = 5
    /\ state.status = "playing"

\* C3: in every reachable state, of every puzzle and the initial state
\* included, status is the one recomputed from guesses and the required
\* letters.
C3_StatusFromGuesses ==
    state.status = StatusOf(state.guesses, needed)

\* C6: a puzzle whose solution has no guessable letter is never won.
C6_NoLetterNeverWon ==
    needed = {} => state.status # "won"

\* the state after the letters f[1..k] are guessed from st
RECURSIVE Play(_, _, _, _)
Play(puzzle, st, f, k) ==
    IF k = 0 THEN st ELSE nextState(puzzle, Play(puzzle, st, f, k - 1), f[k])

\* the orders in which the letters of S can be guessed
Orders(S) ==
    {f \in [1..Cardinality(S) -> S] : \A i, j \in DOMAIN f : f[i] = f[j] => i = j}

\* C7: for a solution with a required letter, guessing the required letters
\* not yet guessed, in any order and from any reachable playing state (the
\* initial one too, where wrong is 0), ends in won with wrong unchanged, and
\* the status stays playing until the last of them.
C7_RequiredLettersWin ==
    (needed # {} /\ state.status = "playing")
    => LET missing == needed \ state.guesses
           n == Cardinality(missing)
       IN  \A f \in Orders(missing) : \A k \in 0..n :
             LET s == Play(picked.puzzle, state, f, k)
             IN  /\ s.wrong = state.wrong
                 /\ s.status = IF k = n THEN "won" ELSE "playing"
                 /\ s.guesses = state.guesses \cup {f[i] : i \in 1..k}

\* the three required letters of KATT, and no other, were guessed
C7_Witness ==
    /\ Cardinality(needed) = 3
    /\ state.guesses = needed
    /\ state.wrong = 0
    /\ state.status = "won"

\* C8: for a solution with a required letter, after guesses of distinct
\* letters none of which is in the solution, wrong is their number; status is
\* playing up to 5 of them and lost with wrong = 6 at the 6th, after which
\* no guess of any letter changes the state.
C8_SixWrongLose ==
    (needed # {} /\ state.guesses \cap needed = {})
    => LET n == Cardinality(state.guesses)
       IN  /\ n <= 6
           /\ state.wrong = n
           /\ n <= 5 => state.status = "playing"
           /\ n = 6 => /\ state.status = "lost"
                       /\ \A raw \in RawLetters :
                            nextState(picked.puzzle, state, raw) = state

\* six wrong letters, then a seventh guess of a new letter
C8_Witness ==
    /\ needed # {}
    /\ state.guesses \cap needed = {}
    /\ state.wrong = 6
    /\ state.status = "lost"
    /\ isGuessableLetter(letterRaw)
    /\ norm(letterRaw) \notin state.guesses

\* a base letter and its variant with a diacritic: lower, upper, lower, upper
Diacritics ==
    { <<"a", "A", "a_acute", "A_acute">>,
      <<"i", "I", "i_acute", "I_acute">>,
      <<"o", "O", "o_acute", "O_acute">>,
      <<"u", "U", "u_acute", "U_acute">>,
      <<"y", "Y", "y_acute", "Y_acute">>,
      <<"o", "O", "o_slash", "O_slash">>,
      <<"d", "D", "eth", "Eth">> }

Contains(sol, chars) == \E i \in DOMAIN sol : sol[i] \in chars

\* guessing x (in either case) when the solution holds only the other form y
Unconflated(xLower, xUpper, yLower, yUpper) ==
    (/\ Contains(solution, {yLower, yUpper})
     /\ ~Contains(solution, {xLower, xUpper})
     /\ state.status = "playing"
     /\ <<xLower>> \notin state.guesses)
    => \A raw \in {<<xLower>>, <<xUpper>>} :
         LET s == nextState(picked.puzzle, state, raw)
         IN  /\ s.wrong = state.wrong + 1
             /\ s.guesses = state.guesses \cup {<<xLower>>}
             /\ <<yLower>> \in s.guesses <=> <<yLower>> \in state.guesses
             /\ mask(solution, s.guesses) = mask(solution, state.guesses)

\* C9: a letter and its diacritic variant are never conflated (guessing one
\* when the solution holds only the other is a wrong guess that reveals
\* nothing and does not add the other to guesses), while the upper and the
\* lower case of a letter are one guess.
C9_DiacriticsDistinct ==
    /\ \A d \in Diacritics :
         /\ Unconflated(d[1], d[2], d[3], d[4])
         /\ Unconflated(d[3], d[4], d[1], d[2])
    /\ \A i \in {j \in DOMAIN LOWER : LOWER[j] \in InputLetters} :
         /\ nextState(picked.puzzle, state, <<UPPER[i]>>)
              = nextState(picked.puzzle, state, <<LOWER[i]>>)
         /\ (state.status = "playing" /\ <<LOWER[i]>> \notin state.guesses)
            => <<LOWER[i]>> \in nextState(picked.puzzle, state, <<UPPER[i]>>).guesses

\* "O" was guessed against a solution that holds o with an acute accent only
C9_Witness ==
    /\ Contains(solution, {"o_acute", "O_acute"})
    /\ ~Contains(solution, {"o", "O"})
    /\ letterRaw = <<"O">>
    /\ state.guesses = {<<"o">>}
    /\ state.wrong = 1
    /\ mask(solution, state.guesses) = <<"bullet", "comma", "sp", "bullet">>

\* one character of the mask, as 4.3 describes it
MaskChar(c, guessedSet) ==
    IF ~isGuessableLetter(<<c>>) THEN c
    ELSE IF <<lowerChar(c)>> \in guessedSet THEN c
    ELSE "bullet"

MaskAsDescribed(sol, guessedSet) ==
    LET m == mask(sol, guessedSet)
    IN  /\ Len(m) = Len(sol)
        /\ \A i \in DOMAIN sol : m[i] = MaskChar(sol[i], guessedSet)

\* C10: mask has one character per solution character, in order: a non-letter
\* is copied, a letter whose normalized form is guessed is copied in its
\* original form, every other letter becomes the placeholder; so the mask of
\* a set with all required letters is the solution and the mask of the empty
\* set shows no letter.
C10_Mask ==
    /\ MaskAsDescribed(solution, state.guesses)
    /\ MaskAsDescribed(solution, {})
    /\ MaskAsDescribed(solution, needed)
    /\ \A g \in SUBSET needed : MaskAsDescribed(solution, g)
    /\ needed \subseteq state.guesses => mask(solution, state.guesses) = solution
    /\ mask(solution, needed) = solution
    /\ \A i \in DOMAIN solution :
         mask(solution, {})[i] \notin Range(LOWER) \cup Range(UPPER)

\* "O', k" with k guessed and a wrong letter: the accented capital stays hidden
C10_Witness ==
    /\ solution = <<"O_acute", "comma", "sp", "k">>
    /\ state.guesses = {<<"k">>, <<"o">>}
    /\ mask(solution, state.guesses) = <<"bullet", "comma", "sp", "k">>

\* C5: while status is playing, a guess whose normalized letter is not
\* guessable or is already guessed leaves guesses, wrong and status as they
\* are.
C5_InvalidGuessNoOp ==
    [][ (/\ state.status = "playing"
         /\ \/ ~isGuessableLetter(letterRaw')
            \/ norm(letterRaw') \in state.guesses)
        => state' = state ]_vars

\* a digit was guessed in a game under way
C5_Witness ==
    /\ letterRaw = <<"1">>
    /\ state.status = "playing"
    /\ state.wrong = 2
    /\ Cardinality(state.guesses) = 3

(***************************************************************************)
(* Properties of the component (checked under Spec)                        *)
(***************************************************************************)

HangKeys(st) == {k \in DOMAIN st : k[1] = KEY_HANG_PREFIX}

\* C4: won and lost are terminal: once the status is won or lost, a guess of
\* any letter returns the state unchanged, also after the state is saved and
\* loaded again for the same DayKey.
C4_Terminal ==
    /\ []((~pickedIsNull /\ Ended(state))
          => \A raw \in RawLetters \cup Keys :
               nextState(picked.puzzle, state, raw) = state)
    /\ [][ \A k \in HangKeys(store) :
             Ended(parseState(store[k]))
             => k \in DOMAIN store' /\ store'[k] = store[k] ]_vars
    /\ [][ (dayKey # Null /\ dayKey' = dayKey /\ Ended(state))
           => state' = state ]_vars
    /\ []((dayKey # Null /\ <<KEY_HANG_PREFIX, dayKey>> \in DOMAIN store
              /\ Ended(loadHangmanState(store, dayKey)))
          => state = loadHangmanState(store, dayKey))

\* a lost game is on the screen of a page where no letter was guessed yet
C4_Witness ==
    /\ ~pickedIsNull
    /\ state.status = "lost"
    /\ letterRaw = <<>>

(***************************************************************************)
(* Properties of the stats ledger (checked under SpecStats)                *)
(***************************************************************************)

Max(a, b) == IF a >= b THEN a ELSE b

\* the length of the run of correct results on consecutive calendar days that
\* ends at the k-th result of h (0 if that result is incorrect, or k = 0)
RECURSIVE RunEndingAt(_, _)
RunEndingAt(h, k) ==
    IF k = 0 THEN 0
    ELSE IF ~h[k].correct THEN 0
    ELSE IF k > 1 /\ h[k - 1].correct /\ h[k].date = h[k - 1].date + 1
         THEN 1 + RunEndingAt(h, k - 1)
         ELSE 1

RECURSIVE LongestRun(_, _)
LongestRun(h, k) ==
    IF k = 0 THEN 0 ELSE Max(RunEndingAt(h, k), LongestRun(h, k - 1))

StrictlyIncreasing(h) ==
    \A i \in 1..(Len(h) - 1) : h[i].date < h[i + 1].date

\* C12: applyResultToStats adds exactly 1 to played, adds 1 to wins if and
\* only if the result is correct (wins unchanged otherwise), and sets
\* lastPlayed to the result's date, for every stats and every result.
C12_PlayedWinsLastPlayed ==
    \A r \in Results :
        LET n == applyResultToStats(stats, r)
        IN  /\ n.played = stats.played + 1
            /\ n.wins = stats.wins + (IF r.correct THEN 1 ELSE 0)
            /\ n.lastPlayed = <<r.date>>

\* a correct and then an incorrect result were applied: 2 played, 1 won
C12_Witness ==
    /\ Len(history) = 2
    /\ history[1].correct /\ ~history[2].correct
    /\ stats.played = 2 /\ stats.wins = 1
    /\ stats.lastPlayed = <<history[2].date>>

\* C13: for a correct result the new streak is 1 when lastPlayed is unset;
\* otherwise it is the old streak + 1 when the result's date is exactly one
\* calendar day after lastPlayed, and 1 for every other difference (0,
\* negative, 2 or more).
C13_StreakRule ==
    \A r \in Results :
        r.correct =>
            LET n == applyResultToStats(stats, r)
            IN  n.streak = IF stats.lastPlayed = <<>> THEN 1
                           ELSE IF r.date - stats.lastPlayed[1] = 1
                                THEN stats.streak + 1
                                ELSE 1

\* correct on the 23-hour day and on the day after it: the streak is 2
C13_Witness ==
    /\ Len(history) = 2
    /\ history[1].correct /\ history[2].correct
    /\ history[1].date = DstDay /\ history[2].date = DstDay + 1
    /\ stats.streak = 2

\* C14: an incorrect result sets streak to 0 whatever the previous streak,
\* lastPlayed and date gap, and leaves maxStreak at its previous value.
C14_IncorrectResets ==
    \A r \in Results :
        ~r.correct =>
            LET n == applyResultToStats(stats, r)
            IN  n.streak = 0 /\ n.maxStreak = stats.maxStreak

\* a streak of 1 was broken by a miss on the next day
C14_Witness ==
    /\ Len(history) = 2
    /\ history[1].correct /\ ~history[2].correct
    /\ history[2].date = history[1].date + 1
    /\ stats.streak = 0 /\ stats.maxStreak = 1

\* C15: after every application, correct or incorrect, the new maxStreak is
\* max(old maxStreak, new streak); so maxStreak never decreases.
C15_MaxStreak ==
    \A r \in Results :
        LET n == applyResultToStats(stats, r)
        IN  /\ n.maxStreak = Max(stats.maxStreak, n.streak)
            /\ n.maxStreak >= stats.maxStreak

\* two correct days in a row and then a miss: maxStreak stays 2, streak is 0
C15_Witness ==
    /\ Len(history) = 3
    /\ history[1].correct /\ history[2].correct /\ ~history[3].correct
    /\ history[2].date = history[1].date + 1
    /\ stats.maxStreak = 2 /\ stats.streak = 0

\* C16: from zero stats, one result per day on strictly increasing dates:
\* after every application streak is the length of the run of correct results
\* on consecutive calendar days that ends at the last result (0 if it is
\* incorrect), maxStreak is the longest such run so far, wins is the number
\* of correct results and played the number of results.
C16_RunLengths ==
    StrictlyIncreasing(history) =>
        /\ stats.streak = RunEndingAt(history, Len(history))
        /\ stats.maxStreak = LongestRun(history, Len(history))
        /\ stats.wins = Cardinality({i \in DOMAIN history : history[i].correct})
        /\ stats.played = Len(history)

\* correct on D, D+1 and D+2: streak = maxStreak = wins = played = 3
C16_Witness ==
    /\ Len(history) = 3
    /\ \A i \in 1..3 : history[i].correct /\ history[i].date = history[1].date + i - 1
    /\ stats.streak = 3 /\ stats.maxStreak = 3
    /\ stats.wins = 3 /\ stats.played = 3

\* C17: applyResultToStats is not idempotent in effect: applying the same
\* result twice in a row adds 2 to played and, for a correct result, 2 to
\* wins; the second application is not refused.
C17_NotIdempotent ==
    \A r \in Results :
        LET once  == applyResultToStats(stats, r)
            twice == applyResultToStats(once, r)
        IN  /\ twice.played = stats.played + 2
            /\ twice.wins = stats.wins + (IF r.correct THEN 2 ELSE 0)
            /\ twice # once

\* the same correct result was applied twice in a row: 2 played, 2 won
C17_Witness ==
    /\ Len(history) = 2
    /\ history[1] = history[2]
    /\ history[1].correct
    /\ stats.played = 2 /\ stats.wins = 2

\* C30: every stats record reached from the zero default by result
\* applications has played >= 0, 0 <= wins <= played, streak >= 0 and
\* maxStreak >= 0.
C30_StatsRanges ==
    /\ stats.played >= 0
    /\ 0 <= stats.wins /\ stats.wins <= stats.played
    /\ stats.streak >= 0
    /\ stats.maxStreak >= 0

\* three results, the last one a miss after a win: wins < played, streak 0
C30_Witness ==
    /\ Len(history) = 3
    /\ history[2].correct /\ ~history[3].correct
    /\ stats.played = 3
    /\ 0 < stats.wins /\ stats.wins < stats.played
    /\ stats.streak = 0 /\ stats.maxStreak >= 1

(***************************************************************************)
(* Properties of the day index and the selection (checked under SpecDates) *)
(***************************************************************************)

\* the instants the clock of SpecDates runs over
Instants == localMidnight(-MaxDays)..(localMidnight(MaxDays + 1) - 1)

\* the entry the selection rule names for day index d: puzzles[((d mod L) + L) mod L]
Wrapped(ps, d) == ps[(((d % Len(ps)) + Len(ps)) % Len(ps)) + 1]

\* C19: for every non-empty list of length L and every day index d, negative
\* ones included, the selected puzzle is puzzles[((d mod L) + L) mod L]: a
\* negative index wraps to a valid entry and never yields no puzzle, in the
\* quiz's pickTodayPuzzle and in HangmanGame's picked alike.
C19_Selection ==
    /\ pickTodayPuzzle(puzzles, now).puzzle
           = Wrapped(puzzles, daysSinceStart(now, START_DATE))
    /\ ~pickedIsNull
    /\ picked.puzzle
           = Wrapped(puzzles, daysBetweenLocal(selectedDateISO, START_DATE_ISO))

\* C20: any two instants of the same local calendar day give the same ISO
\* date and the same day index relative to the epoch, whatever the time of
\* day, also on the days of the daylight-saving period: by toISODate, by
\* daysSinceStart and by dayIndexFor.
C20_SameDaySameIndex ==
    \A y \in Instants :
        localISO(y) = localISO(now)
        => /\ toISODate(y) = toISODate(now)
           /\ daysSinceStart(y, START_DATE) = daysSinceStart(now, START_DATE)
           /\ dayIndexFor(y) = dayIndexFor(now)

(***************************************************************************)
(* Properties of the quiz (checked under SpecApp) and of the device        *)
(* (checked under SpecDevice)                                              *)
(***************************************************************************)

DayKeys(st) == {k \in DOMAIN st : k[1] = KEY_DAY_PREFIX}

\* C18: in the quiz a DayResult is written at most once per DayKey: a stored
\* result is never changed, and once a result is stored for today's DayKey no
\* later choice, in the same session or after a reload, changes the stored
\* result or the stats.
C18_ResultWrittenOnce ==
    /\ [][ \A k \in DayKeys(store) :
             k \in DOMAIN store' /\ store'[k] = store[k] ]_vars
    /\ [][ ( /\ appDayKey # Null
             /\ <<KEY_DAY_PREFIX, appDayKey>> \in DOMAIN store
             /\ \E choiceIndex \in Choices : onChoose(choiceIndex) )
           => /\ store' = store
              /\ appStats' = appStats
              /\ dayResult' = dayResult ]_vars

\* results are stored under two DayKeys, one application each, and the page
\* shows the stored wrong answer of the day
C18_Witness ==
    /\ appDayKey # Null
    /\ <<KEY_DAY_PREFIX, appDayKey>> \in DOMAIN store
    /\ dayResult = loadDayResultV2(store, appDayKey)
    /\ ~dayResult[1].correct
    /\ Cardinality(DayKeys(store)) = 2
    /\ Len(history) = 2

\* C11: for every calendar date, across guesses, quiz choices, reloads and
\* day navigation on one device, the apply-result transition is applied to
\* the stats record at most once, and the stored stats change by no other
\* path.
C11_AppliedOncePerDate ==
    /\ [](\A i, j \in DOMAIN history :
             history[i].date = history[j].date => i = j)
    /\ [][ getItem(store', KEY_STATS) # getItem(store, KEY_STATS)
           => Len(history') = Len(history) + 1 ]_vars

(***************************************************************************)
(* More properties of the day index (checked under SpecDates)              *)
(***************************************************************************)

\* C21: the day index counts local calendar days: for the date d of the
\* clock and every N, the index of d plus N local days is the index of d
\* plus N, and adding N days then subtracting N returns d, also across the
\* 23-hour day; by daysBetweenLocal and by daysSinceStart.
C21_IndexCountsDays ==
    \A N \in -MaxDays..MaxDays :
        LET d == todayIso
            e == addLocalDays(d, N)
        IN  /\ addLocalDays(e, -N) = d
            /\ daysBetweenLocal(e, START_DATE_ISO)
                   = daysBetweenLocal(d, START_DATE_ISO) + N
            /\ daysSinceStart(localMidnight(e), START_DATE)
                   = daysSinceStart(localMidnight(d), START_DATE) + N

(***************************************************************************)
(* Properties of the persistence store (checked under SpecStore and        *)
(* SpecApp)                                                                *)
(***************************************************************************)

StatsFields == {"played", "wins", "streak", "maxStreak", "lastPlayed"}

ResultFields == {"date", "choiceIndex", "correct"}

\* C23: loading from the store always yields a usable value: for an unknown
\* key, an empty value, text that does not parse or text that parses to a
\* foreign value, loadStats returns a well-formed Stats record and
\* loadDayResultV2 returns absent or a well-formed record.
C23_LoadersUsable ==
    /\ DOMAIN stats = StatsFields
    /\ DOMAIN appStats = StatsFields
    /\ DOMAIN loadStats(store) = StatsFields
    /\ dayResult # Null => DOMAIN dayResult[1] = ResultFields

\* C24: after a save of a well-formed value under a key, a load of that key
\* returns an equal value, whatever is saved under other keys in between:
\* for the stats and for the result of a day.
C24_RoundTrip ==
    \A s \in {ZeroStats, appStats,
               [played |-> 2, wins |-> 1, streak |-> 0, maxStreak |-> 1,
                lastPlayed |-> <<1>>]} :
      \A r \in [date : {0, 1}, choiceIndex : Choices, correct : BOOLEAN] :
        \A k1, k2 \in {<<0, 0, "q1">>, <<1, 0, "q1">>, <<1, 1, "q2">>} :
            LET st1 == saveStats(store, s)
                st2 == saveDayResultV2(store, k1, r)
            IN  /\ loadStats(st1) = s
                /\ loadStats(saveDayResultV2(st1, k1, r)) = s
                /\ loadDayResultV2(st2, k1) = <<r>>
                /\ loadDayResultV2(saveStats(st2, s), k1) = <<r>>
                /\ k2 # k1 =>
                     \A r2 \in [date : {0, 1}, choiceIndex : Choices,
                                 correct : BOOLEAN] :
                        loadDayResultV2(saveDayResultV2(st2, k2, r2), k1) = <<r>>

\* the page was opened again over a store that holds the stats with their
\* date and the results of two days: what it loaded is what was saved
C24_Witness ==
    /\ Len(history) = 2
    /\ appStats = loadStats(store)
    /\ appStats.played = 2
    /\ appStats.lastPlayed = <<history[2].date>>
    /\ dayResult = <<history[2]>>
    /\ dayResult = loadDayResultV2(store, appDayKey)

(***************************************************************************)
(* Properties of the catalog fetches (checked under SpecCatalog)           *)
(***************************************************************************)

\* a record as the quiz needs it: word and prompt present and not empty,
\* four choices, answerIndex one of 0..3
ValidRecord(p) ==
    /\ {"word", "prompt", "choices", "answerIndex"} \subseteq DOMAIN p
    /\ p.word # "" /\ p.prompt # ""
    /\ Len(p.choices) = 4
    /\ p.answerIndex \in 0..3

ValidPayload(res) ==
    /\ res.isArray
    /\ Len(res.items) > 0
    /\ \A i \in 1..Len(res.items) : ValidRecord(res.items[i])

\* C26: catalog loading is all-or-nothing: loadPuzzles fails and yields no
\* list when the status is not ok, the payload is not a non-empty array or
\* any record is invalid, and returns the full list only when every record
\* is valid; loadHangmanPuzzles fails when the payload is not a non-empty
\* array. The component holds a list or an error, never both.
C26_AllOrNothing ==
    /\ \A res \in Responses :
          IF res.ok /\ ValidPayload(res)
          THEN loadPuzzles(res) = [data |-> <<res.items>>, message |-> Null]
          ELSE loadPuzzles(res).data = Null /\ loadPuzzles(res).message # Null
    /\ \A res \in HangmanResponses :
          ~(res.isArray /\ Len(res.items) > 0)
              => /\ loadHangmanPuzzles(res).data = Null
                 /\ loadHangmanPuzzles(res).message # Null
    /\ appPuzzles # Null
          => /\ appError = Null
             /\ \A i \in 1..Len(appPuzzles) : ValidRecord(appPuzzles[i])
    /\ appError # Null => appPuzzles = Null /\ appPicked = Null
    /\ puzzles # Null => error = Null /\ Len(puzzles) > 0
    /\ error # Null => puzzles = Null

\* the quiz was served a list whose second record is invalid and holds the
\* error and no list; the hangman was served something that is no array
C26_Witness ==
    /\ appError = <<"Puzzle 1 must have 4 choices">>
    /\ appPuzzles = Null
    /\ error = <<"Hangman puzzle list is empty.">>
    /\ puzzles = Null

(***************************************************************************)
(* Properties of the share texts (checked under SpecDevice)                *)
(***************************************************************************)

\* the puzzle picked by the quiz with another word, and its result with
\* another chosen option
OtherWord(pick, w) ==
    <<[pick[1] EXCEPT !.puzzle = [pick[1].puzzle EXCEPT !.word = w]]>>

OtherChoice(res, c) == <<[res[1] EXCEPT !.choiceIndex = c]>>

\* C28: the share text never depends on the solution or the word: in every
\* share variant, two sessions that agree on date, outcome, wrong count,
\* streak and countdown but differ in the solution, the word or the chosen
\* option produce the same text.
C28_ShareHidesWord ==
    LET countdown == msUntilNextLocalMidnight(now)
    IN  /\ dayResult # Null =>
              \A w \in {"w1", "w2", "w3"}, c \in 0..3 :
                /\ appShare(OtherWord(appPicked, w), OtherChoice(dayResult, c),
                            appStats, dateISO, countdown)
                     = appShare(appPicked, dayResult, appStats, dateISO,
                                countdown)
                /\ appShareEarlier(OtherWord(appPicked, w),
                                   OtherChoice(dayResult, c), appStats, dateISO)
                     = appShareEarlier(appPicked, dayResult, appStats, dateISO)
        /\ (~pickedIsNull /\ state.status # "playing") =>
              /\ share(pickedIsNull, state, stats, selectedDateISO, countdown)
                   # Null
              /\ \A g \in SUBSET {"k", "a", "b", "z"} :
                    share(pickedIsNull, [state EXCEPT !.guesses = g], stats,
                          selectedDateISO, countdown)
                     = share(pickedIsNull, state, stats, selectedDateISO,
                             countdown)

\* the two current variants alone
C28_CurrentVariants ==
    LET countdown == msUntilNextLocalMidnight(now)
    IN  /\ dayResult # Null =>
              \A w \in {"w1", "w2", "w3"}, c \in 0..3 :
                appShare(OtherWord(appPicked, w), OtherChoice(dayResult, c),
                         appStats, dateISO, countdown)
                  = appShare(appPicked, dayResult, appStats, dateISO, countdown)
        /\ (~pickedIsNull /\ state.status # "playing") =>
              \A g \in SUBSET {"k", "a", "b", "z"} :
                    share(pickedIsNull, [state EXCEPT !.guesses = g], stats,
                          selectedDateISO, countdown)
                     = share(pickedIsNull, state, stats, selectedDateISO,
                             countdown)

(***************************************************************************)
(* Properties of the sessions (checked under SpecSessions)                 *)
(***************************************************************************)

\* C22: the epoch is a fixed constant that does not depend on when the
\* program is started: a session started on a later day maps a calendar date
\* to the same day index and the same puzzle as the session started at hour 0
\* does, in the hangman and in the quiz.
C22_FixedEpoch ==
    /\ START_DATE_ISO = localISO(0)
    /\ ~pickedIsNull =>
          /\ picked.dayIndex = daysBetweenLocal(selectedDateISO, localISO(0))
          /\ picked.puzzle
               = puzzles[jsRem(picked.dayIndex, Len(puzzles)) + 1]
    /\ appPicked # Null =>
          \E d \in dateISO..localISO(now) :
              appPicked[1] = pickTodayPuzzle(appPuzzles, localMidnight(d))

\* the quiz conjunct alone
C22_QuizEpoch ==
    appPicked # Null =>
        \E d \in dateISO..localISO(now) :
            appPicked[1] = pickTodayPuzzle(appPuzzles, localMidnight(d))

\* the texts of the storage keys of the puzzle kinds, for dates, day indices
\* and ids that are prefixes of one another or hold the separator
KeyDates == {0, 1}

KeyIndices == {-1, 1, 11}

KeyIds == {"h1", "1", "1__1", "__1", "hang"}

KeyTuples(kind) ==
    {<<kind, d, i, id>> : d \in KeyDates, i \in KeyIndices, id \in KeyIds}

storageKeyText(t) ==
    IF t[1] = "hang" THEN KEY_HANG_PREFIX \o hangKeyText(t[2], t[3], t[4])
    ELSE KEY_DAY_PREFIX \o appKeyText(t[2], t[3], t[4])

\* the tuple a key of the store was built from
TupleOfKey(k) ==
    IF k[1] = KEY_HANG_PREFIX THEN k[2]
    ELSE <<"quiz", k[2][1], k[2][2], k[2][3]>>

\* the state of a game fits the puzzle: wrong counts the guesses that are no
\* letter of its solution; a won game has them all
FitsPuzzle(st, puzzle) ==
    LET required == solutionLetters(puzzle.solution)
    IN  /\ st.wrong = Cardinality(st.guesses \ required)
        /\ st.status = StatusOf(st.guesses, required)

\* C25: a saved game or quiz state is only ever loaded for the puzzle it was
\* saved for: distinct tuples of (puzzle kind, date, day index, puzzle id)
\* give distinct storage keys, which differ from the stats key, and the state
\* shown for a day fits that date, day index and puzzle, also after the epoch
\* or the puzzle list has changed.
C25_LoadedForItsPuzzle ==
    /\ LET tuples == KeyTuples("hang") \cup KeyTuples("quiz")
                         \cup {TupleOfKey(k) : k \in HangKeys(store)
                                                     \cup DayKeys(store)}
           texts  == {storageKeyText(t) : t \in tuples}
       IN  /\ Cardinality(texts) = Cardinality(tuples)
           /\ KEY_STATS[1] \notin texts
    /\ ~pickedIsNull =>
          /\ FitsPuzzle(state, picked.puzzle)
          /\ <<KEY_HANG_PREFIX, dayKey>> \in DOMAIN store
                => FitsPuzzle(loadHangmanState(store, dayKey), picked.puzzle)
    /\ dayResult # Null =>
          /\ dayResult[1].date = dateISO
          /\ dayResult[1].correct
               = (dayResult[1].choiceIndex = appPicked[1].puzzle.answerIndex)

\* the page is opened on the second day, after the first day's game of h1
\* was won, and is served the list in the other order: the game of h2 is the
\* one shown and played, and the store holds a game of either puzzle
C25_Witness ==
    /\ ~pickedIsNull
    /\ picked.puzzle.id = "h2"
    /\ START_DATE_ISO = 1
    /\ state.wrong = 1
    /\ \E k \in HangKeys(store) :
          k[2][4] = "h1" /\ parseState(store[k]).status = "won"
    /\ dayResult # Null
    /\ dateISO = 1

\* a write of a component: a key of its kind is new or has a new value
HangWrote ==
    \E k \in HangKeys(store') : k \notin DOMAIN store \/ store'[k] # store[k]

QuizWrote ==
    \E k \in DayKeys(store') : k \notin DOMAIN store \/ store'[k] # store[k]

Applied == Len(history') > Len(history)

\* C27: the core is inert unless the catalog has loaded: a guess or a choice
\* changes game state, stats or the store only in a session whose fetch has
\* resolved with a list; after a failed fetch the session keeps its error
\* and has no list, and writes nothing.
C27_InertUntilLoaded ==
    /\ [](error # Null => puzzles = Null /\ pickedIsNull)
    /\ [](appError # Null => appPuzzles = Null /\ appPicked = Null)
    /\ [][ /\ (\E letter \in SessionKeys : onGuess(letter))
               => puzzles # Null /\ error = Null
           /\ (HangWrote \/ (Applied /\ history'[Len(history')].choiceIndex = -1))
               => puzzles # Null /\ error = Null
           /\ (\E choiceIndex \in Choices : onChoose(choiceIndex))
               => appPuzzles # Null /\ appError = Null
           /\ (QuizWrote \/ (Applied /\ history'[Len(history')].choiceIndex # -1))
               => appPuzzles # Null /\ appError = Null
           /\ store' # store => HangWrote \/ QuizWrote
           /\ error # Null
               => error' = error \/ (error' = Null /\ puzzles' = Null)
           /\ appError # Null
               => appError' = appError
                    \/ (appError' = Null /\ appPuzzles' = Null) ]_vars

\* the fetch of the hangman has failed in a session in which the quiz has
\* loaded and stored its result: the store holds no game
C27_Witness ==
    /\ error # Null
    /\ puzzles = Null
    /\ state = initialState
    /\ dayResult # Null
    /\ HangKeys(store) = {}
    /\ DayKeys(store) # {}

\* C29: persist after every mutation: after a guess or a choice that has
\* changed the game state, the value stored under the current DayKey equals
\* the state in memory; after a day is completed the stored stats equal the
\* stats in memory of the component that completed it; no step deletes a
\* stored key.
C29_PersistAfterMutation ==
    [][ /\ ((\E letter \in SessionKeys : onGuess(letter)) /\ state' # state)
            => /\ dayKey' # Null
               /\ <<KEY_HANG_PREFIX, dayKey'>> \in DOMAIN store'
               /\ loadHangmanState(store', dayKey') = state'
        /\ ((\E choiceIndex \in Choices : onChoose(choiceIndex))
                /\ dayResult' # dayResult)
            => /\ appDayKey' # Null
               /\ loadDayResultV2(store', appDayKey') = dayResult'
        /\ Applied
            => loadStats(store')
                 = (IF history'[Len(history')].choiceIndex = -1
                    THEN stats' ELSE appStats')
        /\ DOMAIN store \subseteq DOMAIN store' ]_vars

\* on the second day a game was won and a quiz answered: both are in the
\* store as they are in memory, with the games and answers of the first day
C29_Witness ==
    /\ ~pickedIsNull
    /\ state.status = "won"
    /\ loadHangmanState(store, dayKey) = state
    /\ dayResult # Null
    /\ loadDayResultV2(store, appDayKey) = dayResult
    /\ selectedDateISO = 1
    /\ dateISO = 1
    /\ Cardinality(HangKeys(store)) >= 2
    /\ Cardinality(DayKeys(store)) = 2
    /\ loadStats(store).played >= 3

\* the stats in memory of the component that applies the result of the step
ApplyingCopy ==
    IF history'[Len(history')].choiceIndex = -1 THEN stats ELSE appStats

\* C31: no update of the stats record is lost: whenever a result is applied,
\* the stats in memory it is applied to equal the stats in the store, and
\* the record written back counts every result applied before it, for every
\* interleaving of the quiz and the hangman, each loading the stats once at
\* its start.
C31_NoLostUpdate ==
    /\ [][Applied => ApplyingCopy = loadStats(store)]_vars
    /\ [](loadStats(store).played = Len(history))

(***************************************************************************)
(* A session that ends inside commit: saveHangmanState has written, then   *)
(* saveStats throws (the quota of localStorage) or the page is closed, and *)
(* the page is opened again                                                *)
(***************************************************************************)

onGuessCut(letter) ==
    /\ ~pickedIsNull
    /\ state.status = "playing"
    /\ LET next == nextState(picked.puzzle, state, letter)
       IN  /\ next.status = "won" \/ next.status = "lost"
           /\ selectedDateISO = todayIso
           /\ store' = saveHangmanState(store, dayKey, next)
    /\ puzzles' = Null
    /\ error' = Null
    /\ todayIso' = todayISO(now)
    /\ START_DATE_ISO' = localISO(now)
    /\ dayOffset' = 0
    /\ state' = initialState
    /\ stats' = loadStats(store')
    /\ letterRaw' = <<>>
    /\ UNCHANGED <<now, appVars, history>>

InitCut == Init

NextCut ==
    \/ Mount
    \/ Tick
    \/ \E cat \in Catalogs : LoadOk(cat)
    \/ LoadFail
    \/ \E letter \in Keys : onGuess(letter)
    \/ \E letter \in Keys : onGuessCut(letter)
    \/ ArrowLeft
    \/ ArrowRight

SpecCut == InitCut /\ [][NextCut]_vars

\* the puzzle of the catalog with an id
PuzzleOfId(id) ==
    CHOOSE p \in {cat[i] : cat \in Catalogs, i \in 1..2} : p.id = id

\* C32: persisted state is consistent at every point, also if the session
\* ends between two writes: every stored hangman state has the wrong count
\* and the status of its puzzle, and whenever the stored game of today's
\* DayKey is won or lost the stored stats have that day as lastPlayed.
C32_StoreConsistent ==
    \A k \in HangKeys(store) :
        LET stored == parseState(store[k])
        IN  /\ FitsPuzzle(stored, PuzzleOfId(k[2][4]))
            /\ (k[2][2] = todayISO(now) /\ Ended(stored))
                  => loadStats(store).lastPlayed = <<k[2][2]>>

(***************************************************************************)
(* Properties of commit (checked under Spec)                               *)
(***************************************************************************)

\* the states a guess of a key leads to from the state shown
NextStates == {nextState(picked.puzzle, state, letter) : letter \in Keys}

MountOverMidnight ==
    /\ now + 12 > localMidnight(localISO(now) + 1)
    /\ now' = localMidnight(localISO(now) + 1)
    /\ puzzles' = Null
    /\ error' = Null
    /\ todayIso' = todayISO(now)
    /\ START_DATE_ISO' = localISO(now')
    /\ dayOffset' = 0
    /\ state' = initialState
    /\ stats' = loadStats(store)
    /\ letterRaw' = <<>>
    /\ UNCHANGED <<store, appVars, history>>

\* the keys pressed: the letters of both puzzles
NavKeys == {<<"K">>, <<"A">>, <<"B">>}

InitNav == Init

NextNav ==
    \/ Mount
    \/ MountOverMidnight
    \/ Tick
    \/ \E cat \in Catalogs : LoadOk(cat)
    \/ LoadFail
    \/ \E letter \in NavKeys : onGuess(letter)
    \/ ArrowLeft
    \/ ArrowRight

SpecNav == InitNav /\ [][NextNav]_vars

\* C34: day navigation stays inside the playable range: after any sequence
\* of previous/next and arrow-key events dayOffset is in [-maxBack, 0], the
\* selected date is never after today and never before the start date, and
\* the day index of the selected date is never negative.
C34_NavigationInRange ==
    /\ dayOffset \in -maxBack..0
    /\ selectedDateISO <= todayIso
    /\ selectedDateISO >= START_DATE_ISO
    /\ daysBetweenLocal(selectedDateISO, START_DATE_ISO) >= 0

\* the offset and the upper end of the range alone
C34_OffsetClamped ==
    /\ dayOffset \in -maxBack..0
    /\ selectedDateISO <= todayIso

(***************************************************************************)
(* Properties of the engine's end states (checked under SpecEngine)        *)
(***************************************************************************)

\* C35: for a puzzle with at least one required letter, wrong is in 0..6,
\* status is lost iff wrong = 6, status playing or won implies wrong <= 5,
\* and "every required letter guessed" never holds together with wrong >= 6.
C35_WrongAndStatus ==
    needed # {} =>
        /\ state.wrong \in 0..6
        /\ state.status = "lost" <=> state.wrong = 6
        /\ state.status \in {"playing", "won"} => state.wrong <= 5
        /\ ~(needed \subseteq state.guesses /\ state.wrong >= 6)

\* a game won on its last life: five wrong letters and every required one
C35_Witness ==
    /\ needed # {}
    /\ state.status = "won"
    /\ state.wrong = 5
    /\ needed \subseteq state.guesses

(***************************************************************************)
(* A player who keeps guessing new letters                                 *)
(***************************************************************************)

\* the letters the player presses: lower case, one upper case, one digit
PlayerLetters == {<<c>> : c \in InputLetters} \cup {<<"K">>, <<"1">>}

\* one press: nextState on the puzzle of the day
Press(raw) ==
    /\ state' = nextState(picked.puzzle, state, raw)
    /\ UNCHANGED <<now, puzzles, error, todayIso, START_DATE_ISO, dayOffset,
                   stats, store, letterRaw, appVars, history>>

\* a press of a letter that is guessable and not guessed before
GuessNew ==
    \E raw \in PlayerLetters :
        /\ isGuessableLetter(norm(raw))
        /\ norm(raw) \notin state.guesses
        /\ Press(raw)

InitPlayer == InitEngine

NextPlayer == \E raw \in PlayerLetters : Press(raw)

\* the engine with a player who does not stop guessing new letters
SpecPlayer == InitPlayer /\ [][NextPlayer]_vars /\ WF_vars(GuessNew)

\* C36: status leaves playing after at most |required letters| + 5 accepted
\* guesses (every state that is still playing has at most |required| + 4
\* guesses), and a player who keeps guessing new letters reaches won or lost.
C36_EveryGameEnds ==
    /\ [](state.status = "playing"
            => Cardinality(state.guesses) <= Cardinality(needed) + 4)
    /\ <>Ended(state)

\* a game that took all |required| + 5 accepted guesses to end
C36_Witness ==
    /\ needed # {}
    /\ Ended(state)
    /\ Cardinality(state.guesses) = Cardinality(needed) + 5

(***************************************************************************)
(* mask and status (checked under SpecPlayer)                              *)
(***************************************************************************)

\* the board shown for the current state: mask(solution, new Set(guesses))
masked == mask(solution, state.guesses)

\* C37: for a puzzle with at least one required letter, status is won iff
\* mask(solution, guesses) equals the solution, before and after every guess,
\* and a guess changes the mask only by turning placeholders into the
\* solution's letters, those of the newly guessed letter: a position that
\* shows a letter keeps it.
C37_MaskAgrees ==
    [][LET sol    == solution
           before == mask(sol, state.guesses)
           after  == mask(sol, state'.guesses)
       IN  solutionLetters(sol) # {} =>
             /\ state.status = "won" <=> before = sol
             /\ state'.status = "won" <=> after = sol
             /\ Len(after) = Len(before)
             /\ \A i \in DOMAIN before :
                    \/ after[i] = before[i]
                    \/ /\ before[i] = PLACEHOLDER
                       /\ after[i] = sol[i]
                       /\ norm(<<sol[i]>>) \in state'.guesses \ state.guesses]_vars

\* a won game of a solution with punctuation: the board is the solution
C37_Witness ==
    /\ needed # {}
    /\ \E i \in DOMAIN solution : ~isGuessableLetter(<<solution[i]>>)
    /\ state.status = "won"
    /\ state.wrong > 0
    /\ masked = solution

(***************************************************************************)
(* The order of the counters (checked under SpecStats)                     *)
(***************************************************************************)

\* C38: every stats record reached from the zero default by result
\* applications (any dates, any order, repeats included) has
\* streak <= maxStreak <= wins <= played, and lastPlayed is set whenever
\* played > 0.
C38_CountersOrdered ==
    /\ stats.streak <= stats.maxStreak
    /\ stats.maxStreak <= stats.wins
    /\ stats.wins <= stats.played
    /\ stats.played > 0 => stats.lastPlayed # <<>>

\* three results out of date order, one date repeated, the last a miss:
\* 0 = streak < maxStreak <= wins < played
C38_Witness ==
    /\ Len(history) = 3
    /\ history[1].date > history[2].date
    /\ history[3].date = history[2].date
    /\ history[1].correct /\ history[2].correct /\ ~history[3].correct
    /\ stats.streak = 0
    /\ stats.maxStreak = 1
    /\ stats.wins = 2
    /\ stats.played = 3
    /\ stats.lastPlayed = <<history[3].date>>
====
